---- MODULE Spec2Model ----
(***************************************************************************)
(* ApiLambdaIntegationRestConstruct (lib/apigw_lambda_integration_rest_    *)
(* construct.py): the constructor reads a config bundle from the CDK       *)
(* context and declares, one statement after the other, a log group, a     *)
(* REST API, two response models, a Lambda integration, a resource with a  *)
(* method and a CORS preflight, an API key, a usage plan and two outputs.  *)
(*                                                                         *)
(* The construct tree is modelled as `graph`, the sequence of declarations *)
(* in the order they are issued; a declaration is referred to by its       *)
(* position in `graph` (object identity).  The constructor's local         *)
(* variables are `env`, and `read` collects the config keys subscripted so *)
(* far.  A subscript gw["k"] on an absent key raises KeyError and          *)
(* dict(None) raises TypeError: either ends the constructor where it       *)
(* stands, with everything declared so far left in the tree (the           *)
(* constructor has no try/except).  The CDK library's own validation of    *)
(* the values it is handed is not part of this source and is not modelled. *)
(***************************************************************************)
EXTENDS Integers, Sequences, FiniteSets, TLC

VARIABLES context, stage, gw, pc, graph, env, apigw, error, read, ret, calls

vars == <<context, stage, gw, pc, graph, env, apigw, error, read, ret, calls>>

-----------------------------------------------------------------------------
(* Bounds of the input space *)

\* at most this many required keys are left out of a config bundle
MaxMissing == 1
\* rate and burst limits range over -1 .. MaxLimit
MaxLimit == 1
\* the accessor is called at most this many times
MaxCalls == 2

-----------------------------------------------------------------------------
(* Values *)

\* None / an unbound name / an unset attribute
NoRef == 0

LOG_INFO == "INFO"
LOG_RETENTION_PERIOD == "ONE_WEEK"

\* the config keys the constructor subscripts, in the order of their first read
RequiredKeys ==
    << "gw_log_group_name", "gw_name", "gw_stage_description",
       "gw_endpoint_type", "gw_description", "gw_response_model_name",
       "gw_error_response_model_name", "gw_passthrough_behavior",
       "gw_root_resource", "gw_method", "gw_origins_cors",
       "gw_origins_cors_method", "gw_api_key_name",
       "gw_api_key_usage_plan_name", "gw_api_key_usage_throttle",
       "gw_api_key_usage_burst" >>

KeySet == { RequiredKeys[i] : i \in 1..Len(RequiredKeys) }

Stages == { "dev", "prod" }
EndpointStrings == { "regional", "REGIONAL", "edge" }
PassthroughStrings ==
    { "WHEN_NO_TEMPLATES", "WHEN_NO_MATCH", "BOGUS", "when_no_match", "" }
Limits == -1 .. MaxLimit

\* a bundle with every key; the names are opaque to the constructor
FullBundle(e, p, r, b) ==
    [ k \in KeySet |->
        CASE k = "gw_endpoint_type" -> e
          [] k = "gw_passthrough_behavior" -> p
          [] k = "gw_api_key_usage_throttle" -> r
          [] k = "gw_api_key_usage_burst" -> b
          [] k = "gw_log_group_name" -> "api-logs"
          [] k = "gw_name" -> "api"
          [] k = "gw_stage_description" -> "stage description"
          [] k = "gw_description" -> "api description"
          [] k = "gw_response_model_name" -> "ResponseModel"
          [] k = "gw_error_response_model_name" -> "ErrorResponseModel"
          [] k = "gw_root_resource" -> "items"
          [] k = "gw_method" -> "POST"
          [] k = "gw_origins_cors" -> "*"
          [] k = "gw_origins_cors_method" -> "POST"
          [] k = "gw_api_key_name" -> "api-key"
          [] OTHER -> "usage-plan" ]

Restrict(f, S) == [ k \in S |-> f[k] ]

EmptyBundle == [ k \in {} |-> "" ]

\* what try_get_context(gw_context) may hand back: None, or a mapping
Contexts ==
    { [ present |-> FALSE, value |-> EmptyBundle ] } \cup
    { [ present |-> TRUE, value |-> Restrict(FullBundle(e, p, r, b), KeySet \ M) ] :
        e \in EndpointStrings, p \in PassthroughStrings, r \in Limits, b \in Limits,
        M \in { X \in SUBSET KeySet : Cardinality(X) <= MaxMissing } }

-----------------------------------------------------------------------------
(* The statements of __init__, in source order *)

\* the API key and usage plan statements exchanged
Steps_KeyAfterPlan ==
    << "load", "log_group", "gateway", "response_model", "error_response_model",
       "integration", "resource", "method", "cors", "usage_plan", "api_key",
       "api_stage", "output_url", "output_log_group", "set_apigw" >>

Steps ==
    << "load", "log_group", "gateway", "response_model", "error_response_model",
       "integration", "resource", "method", "cors", "api_key", "usage_plan",
       "api_stage", "output_url", "output_log_group", "set_apigw" >>

StepIndex(s) == CHOOSE i \in 1..Len(Steps) : Steps[i] = s

\* control falls through to the next statement; after the last one __init__ returns
NextStep(s) ==
    IF StepIndex(s) = Len(Steps) THEN "done" ELSE Steps[StepIndex(s) + 1]

LocalNames ==
    { "api_log_group", "gateway", "response_model", "error_response_model",
      "lambda_integration", "gateway_root_resource", "gateway_post_method",
      "gateway_post_key", "api_key_usage_plan" }

NoError == [ type |-> "none", key |-> "" ]

\* the first key of `keys` (in evaluation order) that gw lacks, "" if none
FirstMissing(keys) ==
    IF \A i \in 1..Len(keys) : keys[i] \in DOMAIN gw
    THEN ""
    ELSE keys[CHOOSE i \in 1..Len(keys) :
                 /\ keys[i] \notin DOMAIN gw
                 /\ \A j \in 1..(i - 1) : keys[j] \in DOMAIN gw]

\* the keys of `keys` subscripted up to and including position n
Prefix(keys, n) == { keys[i] : i \in 1..n }

\* gw["k"] on an absent key, after the keys before it in `keys` were read:
\* KeyError leaves __init__, nothing is undone
RaiseKeyError(keys, k) ==
    /\ pc' = "failed"
    /\ error' = [ type |-> "KeyError", key |-> k ]
    /\ read' = read \cup
               Prefix(keys, CHOOSE i \in 1..Len(keys) :
                               keys[i] = k /\ \A j \in 1..(i - 1) : keys[j] # k)
    /\ UNCHANGED <<context, stage, gw, graph, env, apigw, ret, calls>>

\* a statement that subscripts `keys`, declares `decl` and binds it to the
\* local `name`
Declare(s, keys, name, decl) ==
    /\ graph' = Append(graph, decl)
    /\ env' = IF name = "" THEN env ELSE [ env EXCEPT ![name] = Len(graph) + 1 ]
    /\ read' = read \cup Prefix(keys, Len(keys))
    /\ pc' = NextStep(s)
    /\ UNCHANGED <<context, stage, gw, apigw, error, ret, calls>>

Init ==
    /\ context \in Contexts
    /\ stage \in Stages
    /\ gw = EmptyBundle
    /\ pc = Steps[1]
    /\ graph = << >>
    /\ env = [ n \in LocalNames |-> NoRef ]
    /\ apigw = NoRef
    /\ error = NoError
    /\ read = {}
    /\ ret = [ status |-> "none", value |-> NoRef ]
    /\ calls = 0

\* gw = dict(self.node.try_get_context(gw_context))
LoadConfig ==
    /\ pc = "load"
    /\ IF context.present
       THEN /\ gw' = context.value
            /\ pc' = NextStep("load")
            /\ UNCHANGED error
       ELSE /\ pc' = "failed"
            /\ error' = [ type |-> "TypeError", key |-> "" ]
            /\ UNCHANGED gw
    /\ UNCHANGED <<context, stage, graph, env, apigw, read, ret, calls>>

\* api_log_group = _logs.LogGroup(...)
DeclareLogGroup ==
    /\ pc = "log_group"
    /\ LET keys == << "gw_log_group_name" >>
           miss == FirstMissing(keys) IN
       IF miss # ""
       THEN RaiseKeyError(keys, miss)
       ELSE Declare("log_group", keys, "api_log_group",
               [ kind |-> "LogGroup",
                 id |-> gw["gw_log_group_name"],
                 log_group_name |-> << "/aws/apigateway/", gw["gw_log_group_name"] >>,
                 retention |-> LOG_RETENTION_PERIOD,
                 removal_policy |-> "DESTROY" ])

\* compares without regard to letter case
EndpointTypeOf_AnyCase(s) ==
    IF s \in { "regional", "REGIONAL" } THEN "REGIONAL" ELSE "EDGE"

EndpointTypeOf(s) == IF s = "regional" THEN "REGIONAL" ELSE "EDGE"

\* gateway = _api_gw.RestApi(...)
DeclareGateway ==
    /\ pc = "gateway"
    /\ LET keys == << "gw_name", "gw_stage_description",
                     "gw_endpoint_type", "gw_description" >>
           miss == FirstMissing(keys) IN
       IF miss # ""
       THEN RaiseKeyError(keys, miss)
       ELSE Declare("gateway", keys, "gateway",
               [ kind |-> "RestApi",
                 id |-> gw["gw_name"],
                 rest_api_name |-> gw["gw_name"],
                 deploy_options |->
                   [ description |-> gw["gw_stage_description"],
                     logging_level |-> LOG_INFO,
                     tracing_enabled |-> TRUE,
                     stage_name |-> stage,
                     access_log_destination |-> env["api_log_group"],
                     metrics_enabled |-> TRUE ],
                 endpoint_types |-> << EndpointTypeOf(gw["gw_endpoint_type"]) >>,
                 deploy |-> TRUE,
                 cloud_watch_role |-> TRUE,
                 description |-> gw["gw_description"] ])

\* response_model = gateway.add_model(...)
DeclareResponseModel ==
    /\ pc = "response_model"
    /\ LET keys == << "gw_response_model_name" >>
           miss == FirstMissing(keys) IN
       IF miss # ""
       THEN RaiseKeyError(keys, miss)
       ELSE Declare("response_model", keys, "response_model",
               [ kind |-> "Model",
                 gateway |-> env["gateway"],
                 id |-> gw["gw_response_model_name"],
                 content_type |-> "application/json",
                 model_name |-> gw["gw_response_model_name"],
                 schema |-> [ schema |-> "DRAFT4",
                              title |-> gw["gw_response_model_name"],
                              type |-> "OBJECT",
                              properties |-> { "message" } ] ])

\* the error model is never added to the gateway
DeclareErrorResponseModel_Skipped ==
    /\ pc = "error_response_model"
    /\ LET keys == << "gw_error_response_model_name" >>
           miss == FirstMissing(keys) IN
       IF miss # ""
       THEN RaiseKeyError(keys, miss)
       ELSE /\ pc' = NextStep("error_response_model")
            /\ read' = read \cup Prefix(keys, Len(keys))
            /\ UNCHANGED <<context, stage, gw, graph, env, apigw, error, ret, calls>>

\* error_response_model = gateway.add_model(...)
DeclareErrorResponseModel ==
    /\ pc = "error_response_model"
    /\ LET keys == << "gw_error_response_model_name" >>
           miss == FirstMissing(keys) IN
       IF miss # ""
       THEN RaiseKeyError(keys, miss)
       ELSE Declare("error_response_model", keys, "error_response_model",
               [ kind |-> "Model",
                 gateway |-> env["gateway"],
                 id |-> gw["gw_error_response_model_name"],
                 content_type |-> "application/json",
                 model_name |-> gw["gw_error_response_model_name"],
                 schema |-> [ schema |-> "DRAFT4",
                              title |-> gw["gw_error_response_model_name"],
                              type |-> "OBJECT",
                              properties |-> { "state", "message" } ] ])

\* the final else branch yields WHEN_NO_MATCH
PassthroughBehaviorOf_WrongDefault(pass_context) ==
    IF pass_context = "WHEN_NO_TEMPLATES" THEN "WHEN_NO_TEMPLATES"
    ELSE "WHEN_NO_MATCH"

\* the chained conditional expression on pass_context
PassthroughBehaviorOf(pass_context) ==
    IF pass_context = "WHEN_NO_TEMPLATES" THEN "WHEN_NO_TEMPLATES"
    ELSE IF pass_context = "WHEN_NO_MATCH" THEN "WHEN_NO_MATCH"
    ELSE "NEVER"

\* pass_context = ...; passthrough_behavior = ...; lambda_integration = LambdaIntegration(...)
DeclareIntegration ==
    /\ pc = "integration"
    /\ LET keys == << "gw_passthrough_behavior" >>
           miss == FirstMissing(keys) IN
       IF miss # ""
       THEN RaiseKeyError(keys, miss)
       ELSE Declare("integration", keys, "lambda_integration",
               [ kind |-> "LambdaIntegration",
                 handler |-> "lambda_fn_alias",
                 proxy |-> FALSE,
                 passthrough_behavior |->
                     PassthroughBehaviorOf(gw["gw_passthrough_behavior"]) ])

\* gateway_root_resource = gateway.root.add_resource(...)
DeclareResource ==
    /\ pc = "resource"
    /\ LET keys == << "gw_root_resource" >>
           miss == FirstMissing(keys) IN
       IF miss # ""
       THEN RaiseKeyError(keys, miss)
       ELSE Declare("resource", keys, "gateway_root_resource",
               [ kind |-> "Resource",
                 gateway |-> env["gateway"],
                 parent |-> "root",
                 path_part |-> gw["gw_root_resource"] ])

\* the two response models exchanged
MethodResponses_Swapped(success, failure) ==
    << [ status_code |-> "200", content_type |-> "application/json", model |-> failure ],
       [ status_code |-> "400", content_type |-> "application/json", model |-> success ] >>

\* the method_responses list literal
MethodResponses(success, failure) ==
    << [ status_code |-> "200", content_type |-> "application/json", model |-> success ],
       [ status_code |-> "400", content_type |-> "application/json", model |-> failure ] >>

\* gateway_post_method = gateway_root_resource.add_method(...)
DeclareMethod ==
    /\ pc = "method"
    /\ LET keys == << "gw_method" >>
           miss == FirstMissing(keys) IN
       IF miss # ""
       THEN RaiseKeyError(keys, miss)
       ELSE Declare("method", keys, "gateway_post_method",
               [ kind |-> "Method",
                 resource |-> env["gateway_root_resource"],
                 http_method |-> gw["gw_method"],
                 integration |-> env["lambda_integration"],
                 api_key_required |-> TRUE,
                 method_responses |->
                     MethodResponses(env["response_model"], env["error_response_model"]) ])

\* gateway_root_resource.add_cors_preflight(...)
DeclareCorsPreflight ==
    /\ pc = "cors"
    /\ LET keys == << "gw_origins_cors", "gw_origins_cors_method" >>
           miss == FirstMissing(keys) IN
       IF miss # ""
       THEN RaiseKeyError(keys, miss)
       ELSE Declare("cors", keys, "",
               [ kind |-> "CorsPreflight",
                 resource |-> env["gateway_root_resource"],
                 allow_origins |-> << gw["gw_origins_cors"] >>,
                 allow_methods |-> << gw["gw_origins_cors_method"] >> ])

\* gw.get("gw_api_key_name", "default-key") in place of gw["gw_api_key_name"]
DeclareApiKey_WithDefault ==
    /\ pc = "api_key"
    /\ LET name == IF "gw_api_key_name" \in DOMAIN gw
                   THEN gw["gw_api_key_name"] ELSE "default-key" IN
       Declare("api_key", << "gw_api_key_name" >>, "gateway_post_key",
               [ kind |-> "ApiKey",
                 gateway |-> env["gateway"],
                 id |-> name,
                 api_key_name |-> name ])

\* gateway_post_key = gateway.add_api_key(...)
DeclareApiKey ==
    /\ pc = "api_key"
    /\ LET keys == << "gw_api_key_name" >>
           miss == FirstMissing(keys) IN
       IF miss # ""
       THEN RaiseKeyError(keys, miss)
       ELSE Declare("api_key", keys, "gateway_post_key",
               [ kind |-> "ApiKey",
                 gateway |-> env["gateway"],
                 id |-> gw["gw_api_key_name"],
                 api_key_name |-> gw["gw_api_key_name"] ])

\* the throttle dict literal of add_usage_plan
PlanThrottle ==
    [ rate_limit |-> gw["gw_api_key_usage_throttle"],
      burst_limit |-> gw["gw_api_key_usage_burst"] ]

\* api_key_usage_plan = gateway.add_usage_plan(...)
DeclareUsagePlan ==
    /\ pc = "usage_plan"
    /\ LET keys == << "gw_api_key_usage_plan_name",
                     "gw_api_key_usage_throttle",
                     "gw_api_key_usage_burst" >>
           miss == FirstMissing(keys) IN
       IF miss # ""
       THEN RaiseKeyError(keys, miss)
       ELSE Declare("usage_plan", keys, "api_key_usage_plan",
               [ kind |-> "UsagePlan",
                 gateway |-> env["gateway"],
                 id |-> gw["gw_api_key_usage_plan_name"],
                 name |-> gw["gw_api_key_usage_plan_name"],
                 api_key |-> env["gateway_post_key"],
                 throttle |-> PlanThrottle ])

\* rate and burst exchanged at the method level
MethodThrottle_Swapped ==
    [ rate_limit |-> gw["gw_api_key_usage_burst"],
      burst_limit |-> gw["gw_api_key_usage_throttle"] ]

\* the inner throttle dict literal of add_api_stage
MethodThrottle ==
    [ rate_limit |-> gw["gw_api_key_usage_throttle"],
      burst_limit |-> gw["gw_api_key_usage_burst"] ]

\* api_key_usage_plan.add_api_stage(stage=gateway.deployment_stage, throttle=[...])
AddApiStage ==
    /\ pc = "api_stage"
    /\ LET keys == << "gw_api_key_usage_throttle",
                     "gw_api_key_usage_burst" >>
           miss == FirstMissing(keys) IN
       IF miss # ""
       THEN RaiseKeyError(keys, miss)
       ELSE Declare("api_stage", keys, "",
               [ kind |-> "ApiStage",
                 usage_plan |-> env["api_key_usage_plan"],
                 stage |-> env["gateway"],
                 throttle |-> << [ method |-> env["gateway_post_method"],
                                   throttle |-> MethodThrottle ] >> ])

\* core.CfnOutput(self, "ApiGwUrl", value=(gateway.url))
OutputUrl ==
    /\ pc = "output_url"
    /\ Declare("output_url", << >>, "",
          [ kind |-> "CfnOutput", id |-> "ApiGwUrl",
            value |-> [ attr |-> "url", of |-> env["gateway"] ] ])

\* core.CfnOutput(self, "ApiGWLogGroup", value=(api_log_group.log_group_name))
OutputLogGroup ==
    /\ pc = "output_log_group"
    /\ Declare("output_log_group", << >>, "",
          [ kind |-> "CfnOutput", id |-> "ApiGWLogGroup",
            value |-> [ attr |-> "log_group_name", of |-> env["api_log_group"] ] ])

\* the log group is stored in place of the gateway
SetApigw_LogGroup ==
    /\ pc = "set_apigw"
    /\ apigw' = env["api_log_group"]
    /\ pc' = NextStep("set_apigw")
    /\ UNCHANGED <<context, stage, gw, graph, env, error, read, ret, calls>>

\* self.apigw = gateway
SetApigw ==
    /\ pc = "set_apigw"
    /\ apigw' = env["gateway"]
    /\ pc' = NextStep("set_apigw")
    /\ UNCHANGED <<context, stage, gw, graph, env, error, read, ret, calls>>

\* the property main_api: return self.apigw.  It can be read once __init__ has
\* returned or raised; an attribute never assigned raises AttributeError.
main_api ==
    /\ pc \in { "done", "failed" }
    /\ calls < MaxCalls
    /\ calls' = calls + 1
    /\ ret' = IF apigw = NoRef
              THEN [ status |-> "AttributeError", value |-> NoRef ]
              ELSE [ status |-> "returned", value |-> apigw ]
    /\ UNCHANGED <<context, stage, gw, pc, graph, env, apigw, error, read>>

Next ==
    \/ LoadConfig
    \/ DeclareLogGroup
    \/ DeclareGateway
    \/ DeclareResponseModel
    \/ DeclareErrorResponseModel
    \/ DeclareIntegration
    \/ DeclareResource
    \/ DeclareMethod
    \/ DeclareCorsPreflight
    \/ DeclareApiKey
    \/ DeclareUsagePlan
    \/ AddApiStage
    \/ OutputUrl
    \/ OutputLogGroup
    \/ SetApigw
    \/ main_api

Spec == Init /\ [][Next]_vars

-----------------------------------------------------------------------------
(* Reading the construct tree *)

Decls(kind) == { i \in 1..Len(graph) : graph[i].kind = kind }
Count(kind) == Cardinality(Decls(kind))
Kinds == [ i \in 1..Len(graph) |-> graph[i].kind ]

\* the bundle the context store supplied
Supplied(k) == context.present /\ k \in DOMAIN context.value
Lacks(k) == context.present /\ k \notin DOMAIN context.value
ValidBundle == context.present /\ DOMAIN context.value = KeySet

SuccessModels == { i \in Decls("Model") : graph[i].schema.properties = { "message" } }
ErrorModels ==
    { i \in Decls("Model") : graph[i].schema.properties = { "state", "message" } }

-----------------------------------------------------------------------------
(* C1: a completed construction has declared exactly one REST gateway, one  *)
(* log group, one usage plan, one API key and two response models (one      *)
(* success, one error), and a bundle with every required field always       *)
(* completes, whatever its values.                                          *)
C1_ExactlyOneOfEach ==
    /\ pc = "done" =>
         /\ Count("RestApi") = 1
         /\ Count("LogGroup") = 1
         /\ Count("UsagePlan") = 1
         /\ Count("ApiKey") = 1
         /\ Count("Model") = 2
         /\ Cardinality(SuccessModels) = 1
         /\ Cardinality(ErrorModels) = 1
    /\ ValidBundle => pc # "failed"

C1_Witness ==
    /\ pc = "done"
    /\ ValidBundle
    /\ Count("RestApi") = 1
    /\ Count("Model") = 2
    /\ gw["gw_passthrough_behavior"] = "BOGUS"
    /\ gw["gw_api_key_usage_throttle"] > gw["gw_api_key_usage_burst"]

(* C2: when the bundle lacks gw_name, construction has declared nothing at  *)
(* the moment it fails.                                                     *)
C2_NothingDeclaredWhenGwNameMissing ==
    (Lacks("gw_name") /\ pc = "failed") => graph = << >>

(* C3 (as stated): the gateway is REGIONAL when gw_endpoint_type is         *)
(* "regional" and EDGE otherwise, and a bundle lacking only that key still  *)
(* yields a gateway rather than a failure.                                  *)
C3_AbsentEndpointTypeYieldsEdge ==
    /\ \A i \in Decls("RestApi") :
         graph[i].endpoint_types =
           IF Supplied("gw_endpoint_type")
              /\ context.value["gw_endpoint_type"] = "regional"
           THEN << "REGIONAL" >> ELSE << "EDGE" >>
    /\ (context.present /\ DOMAIN context.value = KeySet \ { "gw_endpoint_type" })
         => pc # "failed"

(* C3 (amended): the gateway is REGIONAL when gw_endpoint_type is           *)
(* "regional" and EDGE for every other supplied value; when the key is      *)
(* absent no gateway is declared and construction fails with KeyError at    *)
(* the gateway statement.                                                   *)
C3_EndpointType ==
    /\ \A i \in Decls("RestApi") :
         /\ Supplied("gw_endpoint_type")
         /\ context.value["gw_endpoint_type"] = "regional"
              => graph[i].endpoint_types = << "REGIONAL" >>
         /\ context.value["gw_endpoint_type"] # "regional"
              => graph[i].endpoint_types = << "EDGE" >>
    /\ Lacks("gw_endpoint_type") =>
         /\ Count("RestApi") = 0
         /\ pc \in { "load", "log_group", "gateway", "failed" }

C3_Witness ==
    /\ pc = "done"
    /\ Count("RestApi") = 1
    /\ gw["gw_endpoint_type"] = "REGIONAL"
    /\ graph[env["gateway"]].endpoint_types = << "EDGE" >>

(* C4: a failed construction leaves none of its resources in the graph: the *)
(* only end states are everything declared and nothing declared.            *)
C4_FailureLeavesEmptyGraph ==
    /\ pc = "failed" => graph = << >>
    /\ pc = "done" => Len(graph) = 13

(* C5: the integration's passthrough policy is WHEN_NO_TEMPLATES exactly    *)
(* for "WHEN_NO_TEMPLATES", WHEN_NO_MATCH exactly for "WHEN_NO_MATCH" and   *)
(* NEVER for every other supplied value, and an unrecognized value never    *)
(* stops construction: the integration is declared.                         *)
C5_PassthroughPolicy ==
    /\ \A i \in Decls("LambdaIntegration") :
         LET v == context.value["gw_passthrough_behavior"]
             b == graph[i].passthrough_behavior IN
         /\ Supplied("gw_passthrough_behavior")
         /\ b = "WHEN_NO_TEMPLATES" <=> v = "WHEN_NO_TEMPLATES"
         /\ b = "WHEN_NO_MATCH" <=> v = "WHEN_NO_MATCH"
         /\ b = "NEVER" <=> v \notin { "WHEN_NO_TEMPLATES", "WHEN_NO_MATCH" }
    /\ (Supplied("gw_passthrough_behavior") /\ Count("Model") = 2
          /\ pc # "integration")
         => Count("LambdaIntegration") = 1
    /\ (Supplied("gw_passthrough_behavior") /\ pc = "failed")
         => error.key # "gw_passthrough_behavior"

C5_Witness ==
    /\ Count("LambdaIntegration") = 1
    /\ gw["gw_passthrough_behavior"] = "when_no_match"
    /\ graph[env["lambda_integration"]].passthrough_behavior = "NEVER"
    /\ pc = "done"

(* C6: in a completed construction the usage plan's throttle and the        *)
(* method-level throttle of its API stage are the same (rate, burst) pair,  *)
(* equal to (gw_api_key_usage_throttle, gw_api_key_usage_burst) of the      *)
(* bundle as supplied, for all values.                                      *)
C6_ThrottleVerbatimAtBothLevels ==
    pc = "done" =>
      /\ Count("UsagePlan") = 1
      /\ Count("ApiStage") = 1
      /\ \A u \in Decls("UsagePlan") : \A a \in Decls("ApiStage") :
           /\ graph[a].usage_plan = u
           /\ Len(graph[a].throttle) = 1
           /\ graph[u].throttle = graph[a].throttle[1].throttle
           /\ graph[u].throttle.rate_limit = context.value["gw_api_key_usage_throttle"]
           /\ graph[u].throttle.burst_limit = context.value["gw_api_key_usage_burst"]
           /\ graph[a].throttle[1].method \in Decls("Method")

C6_Witness ==
    /\ pc = "done"
    /\ context.value["gw_api_key_usage_throttle"] = 0
    /\ context.value["gw_api_key_usage_burst"] = -1
    /\ graph[env["api_key_usage_plan"]].throttle = [ rate_limit |-> 0, burst_limit |-> -1 ]
    /\ \E a \in Decls("ApiStage") :
         graph[a].throttle[1].throttle = [ rate_limit |-> 0, burst_limit |-> -1 ]

\* a bundle lacking a key never completes, fails on a key it lacks, and no
\* default stands in for it
NeverCompletesWithout ==
    /\ ~context.present =>
         /\ pc \in { "load", "failed" }
         /\ graph = << >>
         /\ pc = "failed" => error.type = "TypeError"
    /\ \A k \in KeySet : Lacks(k) => pc # "done"
    /\ (context.present /\ pc = "failed") =>
         /\ error.type = "KeyError"
         /\ Lacks(error.key)
         /\ error.key \in read
         /\ \A k \in read \ { error.key } : Supplied(k)
    /\ (context.present /\ ~ValidBundle) => Len(graph) < 13

(* C7 (as stated): construction fails if the context key is absent or any   *)
(* required entry is missing, and the required fields, the keys a completed *)
(* construction has read, are 17.                                           *)
C7_SeventeenRequiredFields ==
    /\ NeverCompletesWithout
    /\ pc = "done" => Cardinality(read) = 17

(* C7 (amended): construction fails if the context key is absent or any     *)
(* required entry is missing, without a default being substituted, and the  *)
(* required fields, the keys a completed construction has read, are 16.     *)
C7_SixteenRequiredFields ==
    /\ NeverCompletesWithout
    /\ pc = "done" => (read = KeySet /\ Cardinality(read) = 16)

C7_Witness ==
    /\ pc = "failed"
    /\ DOMAIN context.value = KeySet \ { "gw_api_key_name" }
    /\ context.present
    /\ error = [ type |-> "KeyError", key |-> "gw_api_key_name" ]
    /\ Count("ApiKey") = 0

(* C8: the single method requires an API key and declares exactly two       *)
(* method responses, '200' with the success model and '400' with the error  *)
(* model, both under application/json, whatever the config values.          *)
C8_MethodResponses ==
    /\ pc = "done" => Count("Method") = 1
    /\ \A m \in Decls("Method") :
         /\ graph[m].api_key_required = TRUE
         /\ graph[m].resource \in Decls("Resource")
         /\ Len(graph[m].method_responses) = 2
         /\ graph[m].method_responses[1].status_code = "200"
         /\ graph[m].method_responses[1].content_type = "application/json"
         /\ graph[m].method_responses[1].model \in SuccessModels
         /\ graph[m].method_responses[2].status_code = "400"
         /\ graph[m].method_responses[2].content_type = "application/json"
         /\ graph[m].method_responses[2].model \in ErrorModels

C8_Witness ==
    /\ pc = "done"
    /\ Count("Method") = 1
    /\ gw["gw_passthrough_behavior"] = "WHEN_NO_MATCH"
    /\ gw["gw_endpoint_type"] = "regional"
    /\ graph[env["gateway_post_method"]].method_responses[2].model
         = env["error_response_model"]

\* the order of declarations the construct is said to issue
FixedOrder ==
    << "LogGroup", "RestApi", "Model", "Model", "LambdaIntegration", "Resource",
       "Method", "CorsPreflight", "ApiKey", "UsagePlan", "ApiStage",
       "CfnOutput", "CfnOutput" >>

\* declaration i refers, through field value r, to an earlier declaration of kind k
Earlier(i, r, k) == r \in Decls(k) /\ r < i

(* C9: declarations are issued in one fixed order after the config load,    *)
(* and every declaration refers only to resources declared before it.      *)
C9_FixedOrder ==
    /\ Len(graph) <= Len(FixedOrder)
    /\ \A i \in 1..Len(graph) : graph[i].kind = FixedOrder[i]
    /\ graph # << >> => (pc # "load" /\ gw = context.value)
    /\ \A i \in Decls("RestApi") :
         Earlier(i, graph[i].deploy_options.access_log_destination, "LogGroup")
    /\ \A i \in Decls("Model") : Earlier(i, graph[i].gateway, "RestApi")
    /\ \A i \in Decls("Resource") : Earlier(i, graph[i].gateway, "RestApi")
    /\ \A i \in Decls("Method") :
         /\ Earlier(i, graph[i].resource, "Resource")
         /\ Earlier(i, graph[i].integration, "LambdaIntegration")
         /\ Earlier(i, graph[i].method_responses[1].model, "Model")
         /\ Earlier(i, graph[i].method_responses[2].model, "Model")
    /\ \A i \in Decls("CorsPreflight") : Earlier(i, graph[i].resource, "Resource")
    /\ \A i \in Decls("ApiKey") : Earlier(i, graph[i].gateway, "RestApi")
    /\ \A i \in Decls("UsagePlan") :
         /\ Earlier(i, graph[i].gateway, "RestApi")
         /\ Earlier(i, graph[i].api_key, "ApiKey")
    /\ \A i \in Decls("ApiStage") :
         /\ Earlier(i, graph[i].usage_plan, "UsagePlan")
         /\ Earlier(i, graph[i].stage, "RestApi")
         /\ Earlier(i, graph[i].throttle[1].method, "Method")
    /\ \A i \in Decls("CfnOutput") :
         /\ graph[i].value.of \in Decls("RestApi") \cup Decls("LogGroup")
         /\ Decls("ApiStage") # {}
    /\ apigw # NoRef => Len(graph) = Len(FixedOrder)

C9_Witness ==
    /\ pc = "done"
    /\ Kinds = FixedOrder
    /\ graph[Len(graph)].id = "ApiGWLogGroup"
    /\ graph[Len(graph) - 1].id = "ApiGwUrl"

\* what holds of the accessor in every state
AccessorExposesDeclaredGateway ==
    /\ pc # "done" => apigw = NoRef
    /\ pc = "done" =>
         /\ apigw \in Decls("RestApi")
         /\ \A i \in Decls("Model") \cup Decls("ApiKey") \cup Decls("UsagePlan") :
              graph[i].gateway = apigw
         /\ \A m \in Decls("Method") : graph[graph[m].resource].gateway = apigw
    /\ ret.status = "returned" => (pc = "done" /\ ret.value = apigw)
    /\ (calls > 0 /\ pc = "done") => ret.status = "returned"
    /\ (calls > 0 /\ pc = "failed") => ret.status = "AttributeError"

\* a call of the accessor, and any step once __init__ has ended, writes nothing
AccessorIsReadOnly ==
    /\ pc \in { "done", "failed" } => (graph' = graph /\ apigw' = apigw /\ pc' = pc)
    /\ ret.status = "returned" => ret' = ret

(* C10: after a completed construction main_api returns the gateway that    *)
(* was declared, the same on every call, and calls leave the graph          *)
(* unchanged; before completion or after a failure no gateway is exposed.   *)
C10_Accessor ==
    /\ [] AccessorExposesDeclaredGateway
    /\ [][AccessorIsReadOnly]_vars

C10_Witness ==
    /\ pc = "done"
    /\ calls = MaxCalls
    /\ ret = [ status |-> "returned", value |-> env["gateway"] ]
    /\ graph[ret.value].kind = "RestApi"

====
